---- MODULE Spec2Model ----
(***************************************************************************)
(* Model of the checkpoint subsystem: GitService (gitService.ts) over the  *)
(* per-project history directory of Storage (storage.ts).                  *)
(*                                                                         *)
(* The shadow store is the git repository under the history directory; the *)
(* working tree is the user's project directory.  A file's content is a    *)
(* number, 0 meaning that the file does not exist.  Commits are kept in    *)
(* the order of their creation and a reference is a commit's position in   *)
(* that order (0: the empty string simple-git reports when git prints      *)
(* "nothing to commit").                                                   *)
(*                                                                         *)
(* Spec is one project with one owner and a faulty environment; SpecConc   *)
(* is two processes in initialize for that project; SpecProjects is two    *)
(* services, each constructed for a project root given as a path, on one   *)
(* file system (svc, disk).                                                *)
(***************************************************************************)
EXTENDS Naturals, Sequences, FiniteSets, TLC

VARIABLES store, wt, last, procs, svc, disk

vars == <<store, wt, last, procs, svc, disk>>

\* The variables of the one-project specifications and those of the
\* specification of several projects on one file system.
coreVars == <<store, wt, last, procs>>
projVars == <<svc, disk>>

\* Bounds of the model.
MaxContent == 1
MaxSnapshots == 2
MaxProjectSnapshots == 1

\* The working tree's files: a project file and the project's .gitignore
\* ("gi").
Files == {"a", "gi"}
Contents == 0..MaxContent
Trees == [Files -> Contents]
EmptyTree == [f \in Files |-> 0]

\* The files a working tree's own .gitignore excludes: content 0 is no
\* .gitignore, content 1 rules that match "a", any other content rules that
\* match none of the files.  git reads the rules from the work tree
\* (GIT_WORK_TREE), not from the history directory.
Ignored(w) == IF w["gi"] = 1 THEN {"a"} ELSE {}

\* An error as the caller sees it: wrap names the message a handler puts
\* around the cause ("EngineUnavailable": 'Checkpointing is enabled, but Git
\* is not installed'; "CheckpointInitFailed": 'Failed to initialize
\* checkpointing: <cause>'; "CheckpointFailed": 'Failed to create checkpoint
\* snapshot: <cause>'; "raw": the cause itself, unwrapped).
NoError == [wrap |-> "none", message |-> "none"]

\* An Error instance thrown by a file-system or engine call.
Thrown(step) == [isError |-> TRUE, message |-> step]

\* The error fs.readFile rejects with: a Node error carrying its code.
FsError(code, step) ==
  [isError |-> TRUE, isNodeError |-> TRUE, code |-> code, message |-> step]

InitialStore ==
  [dir |-> FALSE, config |-> FALSE, repo |-> FALSE, branch |-> "none",
   commits |-> <<>>, head |-> 0, index |-> EmptyTree,
   ignoreExists |-> FALSE, ignore |-> 0]

Idle == [op |-> "none", arg |-> 0, fault |-> "none", err |-> NoError,
         ret |-> 0, calls |-> <<>>]

(***************************************************************************)
(* Paths, Storage and the construction of a GitService.  A path string is  *)
(* its list of segments and whether it starts at the root: "/work/app/" is *)
(* [abs |-> TRUE, parts |-> <<"work", "app", "">>].                        *)
(***************************************************************************)

IsPrefix(p, q) == Len(p) <= Len(q) /\ SubSeq(q, 1, Len(p)) = p

\* path.join(dir, name)
Join(dir, name) == [dir EXCEPT !.parts = Append(@, name)]

\* The working directory of the process and the directory os.homedir()
\* answers.
ProcessCwd == [abs |-> TRUE, parts |-> <<"work">>]
HomeDir == [abs |-> TRUE, parts |-> <<"home">>]
TmpDir == [abs |-> TRUE, parts |-> <<"tmp">>]
NoPath == [abs |-> FALSE, parts |-> <<>>]

\* The segments of a normalised path: "" and "." are dropped, ".." removes
\* the segment before it.
RECURSIVE Normalize(_, _)
Normalize(parts, acc) ==
  IF parts = <<>> THEN acc
  ELSE LET h == Head(parts)
       IN  IF h \in {"", "."} THEN Normalize(Tail(parts), acc)
           ELSE IF h = ".."
           THEN Normalize(Tail(parts),
                          IF acc = <<>> THEN acc
                          ELSE SubSeq(acc, 1, Len(acc) - 1))
           ELSE Normalize(Tail(parts), Append(acc, h))

\* path.resolve(p): absolute and normalised; symbolic links are not
\* followed.
PathResolve(p) ==
  [abs |-> TRUE,
   parts |-> Normalize(IF p.abs THEN p.parts ELSE ProcessCwd.parts \o p.parts,
                       <<>>)]

\* The symbolic link of the file system: /link leads to /work/app.
LinkPath == <<"link">>
LinkTarget == <<"work", "app">>

\* The directory the file system finds under a path: what fs and git reach
\* when they are given it.
Realpath(p) ==
  LET q == PathResolve(p)
  IN  IF IsPrefix(LinkPath, q.parts)
      THEN [abs |-> TRUE,
            parts |-> LinkTarget \o SubSeq(q.parts, Len(LinkPath) + 1,
                                           Len(q.parts))]
      ELSE q

\* new Storage(targetDir)
Storage(targetDir) == [targetDir |-> targetDir]

getGlobalGeminiDir ==
  IF HomeDir = NoPath THEN Join(TmpDir, ".gemini") ELSE Join(HomeDir, ".gemini")

getGlobalTempDir == Join(getGlobalGeminiDir, "tmp")

getProjectRoot(storage) == storage.targetDir

\* sha256 of the path string as it is given, in hex: equal strings have
\* equal digests and the strings of the model have different ones.
getFilePathHash(filePath) == <<"sha256", filePath>>

\* A directory named by a digest under one of the global directories.
getProjectTempDir(storage) ==
  [dir |-> getGlobalTempDir, hash |-> getFilePathHash(getProjectRoot(storage))]

\* Mutant: the digest is taken of the global directory, not of the root.
getHistoryDirShared(storage) ==
  [dir |-> Join(getGlobalGeminiDir, "history"),
   hash |-> getFilePathHash(getGlobalGeminiDir)]

getHistoryDir(storage) ==
  [dir |-> Join(getGlobalGeminiDir, "history"),
   hash |-> getFilePathHash(getProjectRoot(storage))]

\* new GitService(projectRoot, storage)
GitService(projectRoot, storage) ==
  [projectRoot |-> PathResolve(projectRoot), storage |-> storage]

\* Mutant: the handle names no GIT_DIR, and git finds the repository of
\* the directory it runs in.
shadowGitRepositoryNoGitDir(service) ==
  [cwd |-> service.projectRoot,
   GIT_DIR |-> [dir |-> service.projectRoot, sub |-> ".git"],
   GIT_WORK_TREE |-> service.projectRoot,
   HOME |-> getHistoryDir(service.storage),
   XDG_CONFIG_HOME |-> getHistoryDir(service.storage)]

\* The handle of the shadow repository: where git runs and its environment.
shadowGitRepository(service) ==
  [cwd |-> service.projectRoot,
   GIT_DIR |-> [dir |-> getHistoryDir(service.storage), sub |-> ".git"],
   GIT_WORK_TREE |-> service.projectRoot,
   HOME |-> getHistoryDir(service.storage),
   XDG_CONFIG_HOME |-> getHistoryDir(service.storage)]

(***************************************************************************)
(* The engine and the file system, as the service calls them.              *)
(***************************************************************************)

\* fs.mkdir(repoDir, {recursive: true}): an existing directory is no error.
Mkdir(s) == [s EXCEPT !.dir = TRUE]

\* fs.writeFile(gitConfigPath, gitConfigContent): the dedicated identity.
WriteGitConfig(s) == [s EXCEPT !.config = TRUE]

\* Mutant: the check asks for a bare repository, which the store never is.
CheckIsRepoBare(s) == FALSE

\* repo.checkIsRepo(IS_REPO_ROOT): git rev-parse --git-dir answers ".git".
\* It holds as soon as git init has run, whether or not HEAD is born.
CheckIsRepo(s) == s.repo

\* repo.init(false, {'--initial-branch': 'main'}): on an existing repository
\* git reinitialises and ignores the branch option.
GitInit(s) == IF s.repo THEN s ELSE [s EXCEPT !.repo = TRUE, !.branch = "main"]

\* The environment of the handle setupShadowGitRepository works with:
\* simpleGit(repoDir) carries no env(), so git reads the process's own HOME.
SetupRepoEnv == "ambient"

\* The environment of the shadowGitRepository handle: HOME and
\* XDG_CONFIG_HOME are the history directory.
ShadowRepoEnv == "shadow"

\* The identity git commits with: under HOME = history directory it is the
\* one of the dedicated .gitconfig (none when that file was never written),
\* otherwise the user's own global identity.
Identity(env, s) ==
  IF env = "shadow" THEN (IF s.config THEN "Gemini CLI" ELSE "none")
  ELSE "ambient"

\* Mutant: the commit amends the head commit instead of adding one.
GitCommitAmend(s, message, allowEmpty, env) ==
  LET c == [tree |-> s.index, message |-> message,
            author |-> Identity(env, s), parent |-> s.head]
  IN  IF s.head = 0
      THEN [store |-> [s EXCEPT !.commits = Append(@, c),
                                !.head = Len(s.commits) + 1],
            ref |-> Len(s.commits) + 1]
      ELSE [store |-> [s EXCEPT !.commits[s.head] = c], ref |-> s.head]

HeadTree(s) == IF s.head = 0 THEN EmptyTree ELSE s.commits[s.head].tree

\* git commit -m message [--allow-empty]: with nothing staged against HEAD
\* and no --allow-empty, git prints "nothing to commit" on stdout and leaves
\* stderr empty, which simple-git reports as a result whose commit is ''.
GitCommit(s, message, allowEmpty, env) ==
  IF ~allowEmpty /\ s.index = HeadTree(s)
  THEN [store |-> s, ref |-> 0]
  ELSE LET c == [tree |-> s.index, message |-> message,
                 author |-> Identity(env, s), parent |-> s.head]
           n == Len(s.commits) + 1
       IN  [store |-> [s EXCEPT !.commits = Append(@, c), !.head = n],
            ref |-> n]

\* fs.readFile(userGitIgnorePath, 'utf-8'): rejects with ENOENT when the
\* project has no .gitignore and with another code (EACCES) under the fault.
ReadUserGitIgnore(w, fault) ==
  IF fault = "readIgnore"
  THEN [ok |-> FALSE, content |-> 0, error |-> FsError("EACCES", "readIgnore")]
  ELSE IF w["gi"] = 0
  THEN [ok |-> FALSE, content |-> 0, error |-> FsError("ENOENT", "readIgnore")]
  ELSE [ok |-> TRUE, content |-> w["gi"], error |-> Thrown("none")]

\* Mutant: an ignore file that exists is left as it is.
WriteShadowGitIgnoreOnce(s, content) ==
  IF s.ignoreExists THEN s
  ELSE [s EXCEPT !.ignoreExists = TRUE, !.ignore = content]

\* fs.writeFile(shadowGitIgnorePath, userGitIgnoreContent)
WriteShadowGitIgnore(s, content) ==
  [s EXCEPT !.ignoreExists = TRUE, !.ignore = content]

\* git add . with the project as work tree: a tracked file follows the work
\* tree (its deletion too); an untracked file is staged unless ignored.
GitAdd(s, w) ==
  [s EXCEPT !.index =
     [f \in Files |->
        IF s.index[f] # 0 \/ f \notin Ignored(w) THEN w[f] ELSE 0]]

\* git rev-parse HEAD: fails outside a repository and on an unborn HEAD;
\* its output is the commit's name followed by a newline.
RevParseHead(s) ==
  IF s.repo /\ s.head # 0
  THEN [ok |-> TRUE, hash |-> [ref |-> s.head, newline |-> TRUE]]
  ELSE [ok |-> FALSE, hash |-> [ref |-> 0, newline |-> FALSE]]

\* hash.trim()
Trim(hash) == hash.ref

\* The file a faulty restore cannot write (an I/O error on one path: git
\* reports it, goes on with the other paths and exits non-zero).
UnwritableFile == "a"

\* git restore --source ref . : every path of ref's tree is written to the
\* work tree and every tracked path that ref's tree lacks is removed from
\* it; the index on disk is not written.  It fails, changing nothing, when
\* ref does not resolve or when "." matches no path of the index or tree.
GitRestore(s, w, ref, fault) ==
  IF ~s.repo \/ ref \notin 1..Len(s.commits)
  THEN [ok |-> FALSE, wt |-> w]
  ELSE LET t == s.commits[ref].tree
           target == [f \in Files |->
                        IF t[f] # 0 THEN t[f]
                        ELSE IF s.index[f] # 0 THEN 0 ELSE w[f]]
       IN  IF \A f \in Files : t[f] = 0 /\ s.index[f] = 0
           THEN [ok |-> FALSE, wt |-> w]
           ELSE IF fault = "restore"
           THEN [ok |-> FALSE,
                 wt |-> [f \in Files |->
                           IF f = UnwritableFile THEN w[f] ELSE target[f]]]
           ELSE [ok |-> TRUE, wt |-> target]

\* git clean -f -d: removes the files that are neither in the index nor
\* ignored by the work tree's rules as they stand when it runs.
GitClean(s, w, fault) ==
  IF ~s.repo \/ fault = "clean"
  THEN [ok |-> FALSE, wt |-> w]
  ELSE [ok |-> TRUE,
        wt |-> [f \in Files |->
                  IF s.index[f] = 0 /\ f \notin Ignored(w) THEN 0 ELSE w[f]]]

(***************************************************************************)
(* GitService.  A handler takes the store, the working tree, its argument  *)
(* and the fault of its environment: the name of the file-system or engine *)
(* call that throws during this call ("none": no call throws).  It answers *)
(* the store and working tree it leaves, the error it throws (NoError when *)
(* it returns), its return value and the calls it made, in order.  The    *)
(* fault of createFileSnapshot is one of its first engine call, git add.   *)
(***************************************************************************)

\* Mutant: the probe resolves true on an error too.
verifyGitAvailabilityAlways(execError) == TRUE

\* exec('git --version', cb): resolves false on an error and never rejects.
verifyGitAvailability(execError) == ~execError

SetupFailed(s, step, calls) ==
  [store |-> s, ok |-> FALSE, error |-> Thrown(step), calls |-> calls]

setupShadowGitRepository(s, w, fault) ==
  LET s1 == Mkdir(s)
      s2 == WriteGitConfig(s1)
      isRepoDefined == CheckIsRepo(s2)
      s3 == GitInit(s2)
      s4 == GitCommit(s3, "Initial commit", TRUE, SetupRepoEnv).store
      s5 == IF isRepoDefined THEN s2 ELSE s4
      rd == ReadUserGitIgnore(w, fault)
      rethrow == ~rd.ok /\ rd.error.isNodeError /\ rd.error.code # "ENOENT"
      userGitIgnoreContent == IF rd.ok THEN rd.content ELSE 0
      s6 == WriteShadowGitIgnore(s5, userGitIgnoreContent)
      pre == <<"mkdir", "writeConfig", "checkIsRepo">>
      mid == IF isRepoDefined THEN pre ELSE pre \o <<"init", "commit">>
  IN  CASE fault = "mkdir" -> SetupFailed(s, "mkdir", <<"mkdir">>)
        [] fault = "writeConfig" ->
             SetupFailed(s1, "writeConfig", <<"mkdir", "writeConfig">>)
        [] fault = "checkIsRepo" -> SetupFailed(s2, "checkIsRepo", pre)
        [] fault = "init" /\ ~isRepoDefined ->
             SetupFailed(s2, "init", pre \o <<"init">>)
        [] fault = "commit" /\ ~isRepoDefined -> SetupFailed(s3, "commit", mid)
        [] rethrow ->
             [store |-> s5, ok |-> FALSE, error |-> rd.error,
              calls |-> mid \o <<"readIgnore">>]
        [] fault = "writeIgnore" ->
             SetupFailed(s5, "writeIgnore",
                         mid \o <<"readIgnore", "writeIgnore">>)
        [] OTHER -> [store |-> s6, ok |-> TRUE, error |-> Thrown("none"),
                     calls |-> mid \o <<"readIgnore", "writeIgnore">>]

\* Mutant: the instanceof test is inverted and the cause's message is lost.
MessageOfUnknown(error) == "Unknown error"

\* error instanceof Error ? error.message : 'Unknown error'
MessageOf(error) == IF error.isError THEN error.message ELSE "Unknown error"

initialize(s, w, fault) ==
  LET gitAvailable == verifyGitAvailability(fault = "exec")
      r == setupShadowGitRepository(s, w, fault)
  IN  IF ~gitAvailable
      THEN [store |-> s, wt |-> w, ret |-> 0, calls |-> <<>>,
            err |-> [wrap |-> "EngineUnavailable", message |-> "none"]]
      ELSE IF ~r.ok
      THEN [store |-> r.store, wt |-> w, ret |-> 0, calls |-> r.calls,
            err |-> [wrap |-> "CheckpointInitFailed",
                     message |-> MessageOf(r.error)]]
      ELSE [store |-> r.store, wt |-> w, ret |-> 0, calls |-> r.calls,
            err |-> NoError]

\* No try/catch: the engine's error reaches the caller as it is.
getCurrentCommitHash(s, w, fault) ==
  LET r == RevParseHead(s)
  IN  IF fault = "revparse" \/ ~r.ok
      THEN [store |-> s, wt |-> w, ret |-> 0, calls |-> <<"revparse">>,
            err |-> [wrap |-> "raw", message |-> "revparse"]]
      ELSE [store |-> s, wt |-> w, ret |-> Trim(r.hash),
            calls |-> <<"revparse">>,
            err |-> NoError]

SnapshotFailed(s, w, step, calls) ==
  [store |-> s, wt |-> w, ret |-> 0, calls |-> calls,
   err |-> [wrap |-> "CheckpointFailed", message |-> MessageOf(Thrown(step))]]

\* Mutant: the reference returned is HEAD as read before the commit.
createFileSnapshotHeadBefore(s, w, fault) ==
  LET s1 == GitAdd(s, w)
      c == GitCommit(s1, "snapshot", FALSE, ShadowRepoEnv)
  IN  IF ~s.repo \/ fault = "add"
      THEN SnapshotFailed(s, w, "add", <<"add">>)
      ELSE [store |-> c.store, wt |-> w,
            ret |-> IF c.ref = 0 THEN 0 ELSE s.head,
            calls |-> <<"add", "commit">>, err |-> NoError]

\* Mutant: the commit is made a second time to read its reference.
createFileSnapshotTwice(s, w, fault) ==
  LET s1 == GitAdd(s, w)
      c == GitCommit(s1, "snapshot", FALSE, ShadowRepoEnv)
      c2 == GitCommit(c.store, "snapshot", TRUE, ShadowRepoEnv)
  IN  IF ~s.repo \/ fault = "add"
      THEN SnapshotFailed(s, w, "add", <<"add">>)
      ELSE [store |-> c2.store, wt |-> w, ret |-> c2.ref,
            calls |-> <<"add", "commit">>, err |-> NoError]

createFileSnapshot(s, w, fault) ==
  LET s1 == GitAdd(s, w)
      c == GitCommit(s1, "snapshot", FALSE, ShadowRepoEnv)
  IN  IF ~s.repo \/ fault = "add"
      THEN SnapshotFailed(s, w, "add", <<"add">>)
      ELSE IF fault = "commit" \/ Identity(ShadowRepoEnv, s1) = "none"
      THEN SnapshotFailed(s1, w, "commit", <<"add", "commit">>)
      ELSE [store |-> c.store, wt |-> w, ret |-> c.ref,
            calls |-> <<"add", "commit">>, err |-> NoError]

\* Mutant: the untracked files are removed before the content is restored.
restoreProjectFromSnapshotCleanFirst(s, w, commitHash, fault) ==
  LET c == GitClean(s, w, fault)
      r == GitRestore(s, c.wt, commitHash, fault)
  IN  IF ~c.ok
      THEN [store |-> s, wt |-> c.wt, ret |-> 0, calls |-> <<"clean">>,
            err |-> [wrap |-> "raw", message |-> "clean"]]
      ELSE IF ~r.ok
      THEN [store |-> s, wt |-> r.wt, ret |-> 0,
            calls |-> <<"clean", "restore">>,
            err |-> [wrap |-> "raw", message |-> "restore"]]
      ELSE [store |-> s, wt |-> r.wt, ret |-> 0,
            calls |-> <<"clean", "restore">>, err |-> NoError]

\* Mutant: the content is restored by a hard reset, which moves HEAD and
\* the index to the snapshot.
restoreProjectFromSnapshotReset(s, w, commitHash, fault) ==
  LET r == GitRestore(s, w, commitHash, fault)
      c == GitClean(s, r.wt, fault)
      s1 == [s EXCEPT !.head = commitHash, !.index = s.commits[commitHash].tree]
  IN  IF ~r.ok
      THEN [store |-> s, wt |-> r.wt, ret |-> 0, calls |-> <<"restore">>,
            err |-> [wrap |-> "raw", message |-> "restore"]]
      ELSE IF ~c.ok
      THEN [store |-> s1, wt |-> c.wt, ret |-> 0,
            calls |-> <<"restore", "clean">>,
            err |-> [wrap |-> "raw", message |-> "clean"]]
      ELSE [store |-> s1, wt |-> c.wt, ret |-> 0,
            calls |-> <<"restore", "clean">>, err |-> NoError]

\* No try/catch: a failing phase's error reaches the caller as it is, and
\* the second phase runs only after the first has returned.
restoreProjectFromSnapshot(s, w, commitHash, fault) ==
  LET r == GitRestore(s, w, commitHash, fault)
      c == GitClean(s, r.wt, fault)
  IN  IF ~r.ok
      THEN [store |-> s, wt |-> r.wt, ret |-> 0, calls |-> <<"restore">>,
            err |-> [wrap |-> "raw", message |-> "restore"]]
      ELSE IF ~c.ok
      THEN [store |-> s, wt |-> c.wt, ret |-> 0,
            calls |-> <<"restore", "clean">>,
            err |-> [wrap |-> "raw", message |-> "clean"]]
      ELSE [store |-> s, wt |-> c.wt, ret |-> 0,
            calls |-> <<"restore", "clean">>, err |-> NoError]

(***************************************************************************)
(* Several projects on one file system.  The directories that hold files   *)
(* are /work/app, which has no repository of its own, and /other, which    *)
(* holds the user's own repository; a project root above /work/app has no  *)
(* other file below it, so that its working tree is the one of /work/app   *)
(* with every name under "app/".  git never stages, restores or cleans a   *)
(* path named .git.                                                        *)
(***************************************************************************)

WorkDir == [abs |-> TRUE, parts |-> <<"work">>]
WorkAppDir == [abs |-> TRUE, parts |-> <<"work", "app">>]
OtherDir == [abs |-> TRUE, parts |-> <<"other">>]
LeafDirs == {WorkAppDir, OtherDir}
UserRepoDirs == {OtherDir}

\* The project-root arguments a service is constructed with: /work/app,
\* /work/app/, app, /link, /work, /other and the home directory.
Args ==
  {WorkAppDir,
   [abs |-> TRUE, parts |-> <<"work", "app", "">>],
   [abs |-> FALSE, parts |-> <<"app">>],
   [abs |-> TRUE, parts |-> <<"link">>],
   WorkDir, OtherDir, HomeDir}

\* The two service instances; the second is constructed for /work/app or
\* /other.
Sessions == {1, 2}
ArgsOf(k) == IF k = 1 THEN Args ELSE {WorkAppDir, OtherDir}
NoService == [projectRoot |-> NoPath, storage |-> Storage(NoPath)]

HistoryDirs == {getHistoryDir(Storage(arg)) : arg \in Args}

\* The user's own repository, with the one commit the user has made.
UserRepository ==
  [InitialStore EXCEPT
     !.dir = TRUE, !.repo = TRUE, !.branch = "main", !.head = 1,
     !.commits = <<[tree |-> EmptyTree, message |-> "user",
                    author |-> "ambient", parent |-> 0]>>]

InitialDisk ==
  [files |-> [d \in LeafDirs |-> EmptyTree],
   stores |-> [h \in HistoryDirs |-> InitialStore],
   userRepo |-> [d \in UserRepoDirs |-> UserRepository]]

\* The repository git works on under a GIT_DIR: the store of a history
\* directory, the user's own repository, or none.
RepoAt(d, gitDir) ==
  IF "hash" \in DOMAIN gitDir.dir
  THEN d.stores[gitDir.dir]
  ELSE IF Realpath(gitDir.dir) \in UserRepoDirs
  THEN d.userRepo[Realpath(gitDir.dir)]
  ELSE InitialStore

PutRepo(d, gitDir, s) ==
  IF "hash" \in DOMAIN gitDir.dir
  THEN [d EXCEPT !.stores[gitDir.dir] = s]
  ELSE IF Realpath(gitDir.dir) \in UserRepoDirs
  THEN [d EXCEPT !.userRepo[Realpath(gitDir.dir)] = s]
  ELSE d

\* The directory with files that lies at or below a root.
LeafOf(root) ==
  CHOOSE l \in LeafDirs : IsPrefix(Realpath(root).parts, l.parts)

\* The roots whose working tree the model holds: one directory with files
\* at or below it and the global directory not below it.
Covered(root) ==
  /\ Cardinality({l \in LeafDirs : IsPrefix(Realpath(root).parts, l.parts)}) = 1
  /\ ~IsPrefix(Realpath(root).parts, getGlobalGeminiDir.parts)

\* The working tree under GIT_WORK_TREE.
WorkTreeAt(d, root) == d.files[LeafOf(root)]

PutWorkTree(d, root, w) == [d EXCEPT !.files[LeafOf(root)] = w]

\* path.join(projectRoot, '.gitignore') is the root's own file, which only
\* a root that is a directory with files has.
RootWorkTree(d, root) ==
  [WorkTreeAt(d, root) EXCEPT
     !["gi"] = IF Realpath(root) \in LeafDirs THEN @ ELSE 0]

(***************************************************************************)
(* The state machine: one owner calls the handlers one after the other,    *)
(* reads each call's outcome (last) and goes on; the user edits the        *)
(* working tree between the calls.                                         *)
(***************************************************************************)

\* The independent processes of the concurrent specification, and where
\* each stands in its initialize call: the await it is about to make, and
\* its locals isRepoDefined and userGitIgnoreContent.
Procs == {1, 2}
ProcStart == [pc |-> "verify", isRepoDefined |-> FALSE, content |-> 0]

InitFaults == {"none", "exec", "mkdir", "writeConfig", "checkIsRepo", "init",
               "commit", "readIgnore", "writeIgnore"}
Refs == 0..(MaxSnapshots + 1)

Init ==
  /\ store = InitialStore
  /\ wt = EmptyTree
  /\ last = Idle
  /\ procs = [p \in Procs |-> ProcStart]
  /\ svc = [k \in Sessions |-> NoService]
  /\ disk = InitialDisk

\* What the caller has seen of its last call.
Result(op, arg, fault, r) ==
  [op |-> op, arg |-> arg, fault |-> fault, err |-> r.err, ret |-> r.ret,
   calls |-> r.calls]

Initialize ==
  \E fault \in InitFaults :
    LET r == initialize(store, wt, fault)
    IN  /\ last = Idle
        /\ store' = r.store
        /\ wt' = r.wt
        /\ last' = Result("initialize", 0, fault, r)
        /\ UNCHANGED <<procs, projVars>>

GetCurrentCommitHash ==
  \E fault \in {"none", "revparse"} :
    LET r == getCurrentCommitHash(store, wt, fault)
    IN  /\ last = Idle
        /\ store' = r.store
        /\ wt' = r.wt
        /\ last' = Result("getCurrentCommitHash", 0, fault, r)
        /\ UNCHANGED <<procs, projVars>>

CreateFileSnapshot ==
  /\ last = Idle
  /\ Len(store.commits) <= MaxSnapshots
  /\ \E fault \in {"none", "add"} :
       LET r == createFileSnapshot(store, wt, fault)
       IN  /\ store' = r.store
           /\ wt' = r.wt
           /\ last' = Result("createFileSnapshot", 0, fault, r)
           /\ UNCHANGED <<procs, projVars>>

RestoreProjectFromSnapshot ==
  \E commitHash \in Refs, fault \in {"none", "restore", "clean"} :
    LET r == restoreProjectFromSnapshot(store, wt, commitHash, fault)
    IN  /\ last = Idle
        /\ store' = r.store
        /\ wt' = r.wt
        /\ last' = Result("restoreProjectFromSnapshot", commitHash, fault, r)
        /\ UNCHANGED <<procs, projVars>>

\* The user creates, edits or deletes a file of the project.
EditWorkingTree ==
  /\ last = Idle
  /\ \E f \in Files, c \in Contents :
       /\ c # wt[f]
       /\ wt' = [wt EXCEPT ![f] = c]
  /\ UNCHANGED <<store, last, procs, projVars>>

\* The caller has read the outcome of its call and goes on.
Resume ==
  /\ last # Idle
  /\ last' = Idle
  /\ UNCHANGED <<store, wt, procs, projVars>>

Next ==
  \/ Initialize
  \/ GetCurrentCommitHash
  \/ CreateFileSnapshot
  \/ RestoreProjectFromSnapshot
  \/ EditWorkingTree
  \/ Resume

Spec == Init /\ [][Next]_vars

(***************************************************************************)
(* Two independent processes call initialize for the same project on an    *)
(* uninitialized history directory.  Every await of initialize and of      *)
(* setupShadowGitRepository is a step; no call of the environment fails.   *)
(***************************************************************************)

InitConc ==
  /\ store = InitialStore
  /\ wt \in Trees
  /\ last = Idle
  /\ procs = [p \in Procs |-> ProcStart]
  /\ svc = [k \in Sessions |-> NoService]
  /\ disk = InitialDisk

At(p, pc) == procs[p].pc = pc

Goto(p, pc) == procs' = [procs EXCEPT ![p].pc = pc]

StepVerify(p) ==
  /\ At(p, "verify")
  /\ verifyGitAvailability(FALSE)
  /\ Goto(p, "mkdir")
  /\ UNCHANGED <<store, wt, last, projVars>>

StepMkdir(p) ==
  /\ At(p, "mkdir")
  /\ store' = Mkdir(store)
  /\ Goto(p, "writeConfig")
  /\ UNCHANGED <<wt, last, projVars>>

StepWriteConfig(p) ==
  /\ At(p, "writeConfig")
  /\ store' = WriteGitConfig(store)
  /\ Goto(p, "checkIsRepo")
  /\ UNCHANGED <<wt, last, projVars>>

StepCheckIsRepo(p) ==
  /\ At(p, "checkIsRepo")
  /\ procs' = [procs EXCEPT
                 ![p].isRepoDefined = CheckIsRepo(store),
                 ![p].pc = IF CheckIsRepo(store) THEN "readIgnore" ELSE "init"]
  /\ UNCHANGED <<store, wt, last, projVars>>

StepInit(p) ==
  /\ At(p, "init")
  /\ store' = GitInit(store)
  /\ Goto(p, "commit")
  /\ UNCHANGED <<wt, last, projVars>>

StepCommit(p) ==
  /\ At(p, "commit")
  /\ store' = GitCommit(store, "Initial commit", TRUE, SetupRepoEnv).store
  /\ Goto(p, "readIgnore")
  /\ UNCHANGED <<wt, last, projVars>>

StepReadIgnore(p) ==
  /\ At(p, "readIgnore")
  /\ LET rd == ReadUserGitIgnore(wt, "none")
     IN  procs' = [procs EXCEPT
                     ![p].content = IF rd.ok THEN rd.content ELSE 0,
                     ![p].pc = "writeIgnore"]
  /\ UNCHANGED <<store, wt, last, projVars>>

StepWriteIgnore(p) ==
  /\ At(p, "writeIgnore")
  /\ store' = WriteShadowGitIgnore(store, procs[p].content)
  /\ Goto(p, "done")
  /\ UNCHANGED <<wt, last, projVars>>

NextConc ==
  \E p \in Procs :
    \/ StepVerify(p)
    \/ StepMkdir(p)
    \/ StepWriteConfig(p)
    \/ StepCheckIsRepo(p)
    \/ StepInit(p)
    \/ StepCommit(p)
    \/ StepReadIgnore(p)
    \/ StepWriteIgnore(p)

SpecConc == InitConc /\ [][NextConc]_vars

(***************************************************************************)
(* Two service instances on one file system: each is constructed for a     *)
(* project root and then called; the user edits the project files.  No     *)
(* call of the environment fails.                                          *)
(***************************************************************************)

InitProjects ==
  /\ store = InitialStore
  /\ wt = EmptyTree
  /\ last = Idle
  /\ procs = [p \in Procs |-> ProcStart]
  /\ svc = [k \in Sessions |-> NoService]
  /\ disk = InitialDisk

\* A caller constructs the Storage and the GitService of a project root.
NewGitService(k) ==
  /\ svc[k] = NoService
  /\ \E arg \in ArgsOf(k) :
       svc' = [svc EXCEPT ![k] = GitService(arg, Storage(arg))]
  /\ UNCHANGED <<disk, coreVars>>

Ready(k) == svc[k] # NoService /\ Covered(svc[k].projectRoot)

ProjectInitialize(k) ==
  /\ Ready(k)
  /\ LET repoDir == [dir |-> getHistoryDir(svc[k].storage), sub |-> ".git"]
         r == initialize(RepoAt(disk, repoDir),
                         RootWorkTree(disk, svc[k].projectRoot), "none")
     IN  disk' = PutRepo(disk, repoDir, r.store)
  /\ UNCHANGED <<svc, coreVars>>

ProjectCreateFileSnapshot(k) ==
  /\ Ready(k)
  /\ LET repo == shadowGitRepository(svc[k])
         s == RepoAt(disk, repo.GIT_DIR)
         r == createFileSnapshot(s, WorkTreeAt(disk, repo.GIT_WORK_TREE),
                                 "none")
     IN  /\ Len(s.commits) <= MaxProjectSnapshots
         /\ disk' = PutWorkTree(PutRepo(disk, repo.GIT_DIR, r.store),
                                repo.GIT_WORK_TREE, r.wt)
  /\ UNCHANGED <<svc, coreVars>>

ProjectRestoreFromSnapshot(k) ==
  /\ Ready(k)
  /\ \E commitHash \in 1..(MaxProjectSnapshots + 1) :
       LET repo == shadowGitRepository(svc[k])
           r == restoreProjectFromSnapshot(
                  RepoAt(disk, repo.GIT_DIR),
                  WorkTreeAt(disk, repo.GIT_WORK_TREE), commitHash, "none")
       IN  disk' = PutWorkTree(PutRepo(disk, repo.GIT_DIR, r.store),
                               repo.GIT_WORK_TREE, r.wt)
  /\ UNCHANGED <<svc, coreVars>>

\* The user creates, edits or deletes the file of a project that a service
\* has been constructed for.
EditProjectFile(k) ==
  /\ Ready(k)
  /\ \E c \in Contents :
       LET w == WorkTreeAt(disk, svc[k].projectRoot)
       IN  /\ c # w["a"]
           /\ disk' = PutWorkTree(disk, svc[k].projectRoot,
                                  [w EXCEPT !["a"] = c])
  /\ UNCHANGED <<svc, coreVars>>

\* The user commits the files of /other to the repository /other holds,
\* with git as the user runs it: no GIT_DIR, the user's own identity.
UserCommit ==
  /\ \E k \in Sessions : Ready(k) /\ Realpath(svc[k].projectRoot) = OtherDir
  /\ Len(disk.userRepo[OtherDir].commits) <= MaxProjectSnapshots
  /\ LET gitDir == [dir |-> OtherDir, sub |-> ".git"]
         staged == GitAdd(RepoAt(disk, gitDir), WorkTreeAt(disk, OtherDir))
     IN  disk' = PutRepo(disk, gitDir,
                         GitCommit(staged, "user", TRUE, SetupRepoEnv).store)
  /\ UNCHANGED <<svc, coreVars>>

NextProjects ==
  \/ UserCommit
  \/ \E k \in Sessions :
       \/ NewGitService(k)
       \/ ProjectInitialize(k)
       \/ ProjectCreateFileSnapshot(k)
       \/ ProjectRestoreFromSnapshot(k)
       \/ EditProjectFile(k)

SpecProjects == InitProjects /\ [][NextProjects]_vars

(***************************************************************************)
(* The claims.                                                             *)
(***************************************************************************)

Succeeded(l, op) == l.op = op /\ l.err = NoError
Failed(l, op) == l.op = op /\ l.err # NoError

\* The references createFileSnapshot has created in store s.
SnapshotRefs(s) == {i \in 1..Len(s.commits) : s.commits[i].message = "snapshot"}

\* C1: after snapshot -> R1, edits of the working tree, snapshot -> R2 and a
\* successful restoreProjectFromSnapshot(R1), every file that the ignore
\* rules do not exclude has the content (or the absence) it had when R1 was
\* taken.  (The working tree is as R2 recorded it when store.head is R2 and
\* staging it changes nothing.)
C1_RoundTripRestore ==
  [][(/\ store.head \in SnapshotRefs(store)
      /\ store.index = HeadTree(store)
      /\ GitAdd(store, wt).index = HeadTree(store)
      /\ Succeeded(last', "restoreProjectFromSnapshot")
      /\ last'.arg \in SnapshotRefs(store)
      /\ last'.arg # store.head)
     => \A f \in Files :
          f \notin Ignored(store.commits[last'.arg].tree) \cup Ignored(wt')
          => wt'[f] = store.commits[last'.arg].tree[f]]_vars

\* C2: whenever initialize has returned without an error, a following
\* getCurrentCommitHash returns without an error.
C2_HeadResolvableAfterInitialize ==
  Succeeded(last, "initialize")
  => getCurrentCommitHash(store, wt, "none").err = NoError

\* C3: initialize on a store that an earlier initialize has set up creates
\* no repository and no commit, leaves the branch and HEAD as they are, and
\* raises no error unless a call of its environment fails.
C3_InitializeIdempotent ==
  [][(last'.op = "initialize" /\ store.repo /\ store.ignoreExists)
     => /\ store'.commits = store.commits
        /\ store'.head = store.head
        /\ store'.branch = store.branch
        /\ store'.repo
        /\ \A i \in 1..Len(last'.calls) :
             last'.calls[i] \notin {"init", "commit"}
        /\ (last'.fault = "none" => last'.err = NoError)]_vars

\* C3's case: initialize returned on a store that already held a snapshot.
C3_Witness ==
  /\ Succeeded(last, "initialize")
  /\ last.fault = "none"
  /\ SnapshotRefs(store) # {}

\* C4: when the probe fails, initialize throws the engine-unavailable error
\* and makes no call of the setup: the history directory, the config file,
\* the repository and the ignore file are as before; and the probe answers
\* false instead of throwing.
C4_ProbeFailureStopsInitialize ==
  [][(last'.op = "initialize" /\ last'.fault = "exec")
     => /\ verifyGitAvailability(TRUE) = FALSE
        /\ last'.err.wrap = "EngineUnavailable"
        /\ last'.calls = <<>>
        /\ store' = store]_vars

\* C4's case: the probe failed on a project that has no history directory.
C4_Witness ==
  /\ Failed(last, "initialize")
  /\ last.fault = "exec"
  /\ ~store.dir

\* C5: restoreProjectFromSnapshot restores the content first and removes
\* the untracked files only after that has succeeded: when the content phase
\* fails the removal is not run and the working tree is left as the content
\* phase left it; when it succeeds, the removal runs on its result, and after
\* a successful removal the working tree holds no untracked file that the
\* rules in force at the removal do not ignore.
C5_RestoreTwoPhaseOrdered ==
  [][last'.op = "restoreProjectFromSnapshot"
     => LET r == GitRestore(store, wt, last'.arg, last'.fault)
        IN  /\ last'.calls[1] = "restore"
            /\ ~r.ok => /\ last'.calls = <<"restore">>
                        /\ last'.err # NoError
                        /\ wt' = r.wt
            /\ r.ok => /\ last'.calls = <<"restore", "clean">>
                       /\ last'.err = NoError =>
                            \A f \in Files :
                              wt'[f] # 0 =>
                                \/ store.index[f] # 0
                                \/ f \in Ignored(r.wt)]_vars

\* C5's case: the content phase failed partway on an existing snapshot and
\* an untracked, unignored file is still in the working tree.
C5_Witness ==
  /\ Failed(last, "restoreProjectFromSnapshot")
  /\ last.fault = "restore"
  /\ last.arg \in SnapshotRefs(store)
  /\ last.calls = <<"restore">>
  /\ \E f \in Files :
       wt[f] # 0 /\ store.index[f] = 0 /\ f \notin Ignored(wt)

\* C6: a commit of the store, once created, keeps its tree, message, author
\* and parent under every later operation.
C6_SnapshotsImmutable ==
  [][\A i \in 1..Len(store.commits) :
       /\ i <= Len(store'.commits)
       /\ store'.commits[i] = store.commits[i]]_vars

\* C6's case: a restore succeeded on a store that holds two snapshots and
\* changed the working tree away from the head snapshot.
C6_Witness ==
  /\ Succeeded(last, "restoreProjectFromSnapshot")
  /\ Cardinality(SnapshotRefs(store)) >= 2
  /\ wt # HeadTree(store)

\* C7: a failure of getCurrentCommitHash is reported as HistoryUnavailable,
\* a failure of restoreProjectFromSnapshot as RestoreFailed and a failure of
\* createFileSnapshot as CheckpointFailed; none reaches the caller unwrapped.
C7_ErrorsNeverRaw ==
  /\ Failed(last, "getCurrentCommitHash")
       => last.err.wrap = "HistoryUnavailable"
  /\ Failed(last, "restoreProjectFromSnapshot")
       => last.err.wrap = "RestoreFailed"
  /\ Failed(last, "createFileSnapshot") => last.err.wrap = "CheckpointFailed"

\* The setup calls that throw under the given fault: the repository's init
\* and bootstrap commit are only made when no repository is found.
SetupThrows(s, fault) ==
  \/ fault \in {"mkdir", "writeConfig", "checkIsRepo", "readIgnore",
                "writeIgnore"}
  \/ fault \in {"init", "commit"} /\ ~s.repo

\* C8: initialize reports a failing setup call, whichever it is, as the
\* initialization-failed error carrying the cause's message, a failing probe
\* as the engine-unavailable error, and never one as the other.
C8_InitializeErrorTaxonomy ==
  [][last'.op = "initialize"
     => /\ (last'.fault = "exec") <=> (last'.err.wrap = "EngineUnavailable")
        /\ SetupThrows(store, last'.fault)
             <=> (last'.err.wrap = "CheckpointInitFailed")
        /\ SetupThrows(store, last'.fault)
             => last'.err.message = last'.fault
        /\ last'.err.wrap \in {"none", "EngineUnavailable",
                               "CheckpointInitFailed"}]_vars

\* C8's case: the bootstrap commit failed after the repository was created.
C8_Witness ==
  /\ Failed(last, "initialize")
  /\ last.err = [wrap |-> "CheckpointInitFailed", message |-> "commit"]
  /\ store.repo
  /\ store.head = 0

\* C9: every commit of the store, the bootstrap commit and the snapshots,
\* is made with the dedicated identity of the history directory.
C9_DedicatedIdentity ==
  \A i \in 1..Len(store.commits) : store.commits[i].author = "Gemini CLI"

\* C10: when two processes have run initialize concurrently on an
\* uninitialized history directory, the store is as a single initialize
\* leaves it: one repository on main with one bootstrap commit.
C10_ConcurrentInitializeSafe ==
  (\A p \in Procs : At(p, "done"))
  => /\ store = initialize(InitialStore, wt, "none").store
     /\ Len(store.commits) = 1
     /\ store.branch = "main"

\* C11: a call of createFileSnapshot, whether it returns or throws, leaves
\* the store with the commits it had and at most one more.
C11_AtMostOneSnapshotPerCall ==
  [][last'.op = "createFileSnapshot"
     => /\ Len(store'.commits) \in {Len(store.commits), Len(store.commits) + 1}
        /\ \A i \in 1..Len(store.commits) :
             store'.commits[i] = store.commits[i]]_vars

\* C11's case: a snapshot was added on top of an earlier snapshot.
C11_Witness ==
  /\ Succeeded(last, "createFileSnapshot")
  /\ last.ret # 0
  /\ last.ret = Len(store.commits)
  /\ store.commits[last.ret].parent \in SnapshotRefs(store)

\* C12: every initialize that returns leaves the store's ignore file with
\* the content of the project's .gitignore as that call read it, empty when
\* the project has none; a missing .gitignore does not make initialize
\* throw, and a read that fails for another reason does.
C12_IgnoreRuleSync ==
  [][last'.op = "initialize"
     => /\ last'.err = NoError
             => /\ store'.ignoreExists
                /\ store'.ignore = wt["gi"]
        /\ (wt["gi"] = 0 /\ last'.fault = "none") => last'.err = NoError
        /\ last'.fault = "readIgnore"
             => /\ last'.err = [wrap |-> "CheckpointInitFailed",
                                message |-> "readIgnore"]
                /\ store'.ignore = store.ignore
                /\ store'.ignoreExists = store.ignoreExists]_vars

\* C12's case: a repeated initialize, on a project that had a .gitignore
\* when a snapshot was taken and has none now, left the ignore file empty.
C12_Witness ==
  /\ Succeeded(last, "initialize")
  /\ store.ignore = 0
  /\ wt["gi"] = 0
  /\ \E i \in 1..Len(store.commits) : store.commits[i].tree["gi"] # 0

\* C13: after a createFileSnapshot that returned, the tree of the store's
\* head snapshot holds no file of the working tree that the project's
\* ignore rules match, and holds every other file of the working tree with
\* the content it has.
C13_IgnoredFilesNotTracked ==
  [][Succeeded(last', "createFileSnapshot")
     => \A f \in Files :
          wt[f] # 0
          => IF f \in Ignored(wt) THEN HeadTree(store')[f] = 0
             ELSE HeadTree(store')[f] = wt[f]]_vars

\* The arguments that are canonical: absolute, normalised, free of links.
Canonical(arg) == arg.abs /\ Realpath(arg) = arg

\* A step of service k on the engine.
ProjectStep(k) ==
  \/ ProjectInitialize(k)
  \/ ProjectCreateFileSnapshot(k)
  \/ ProjectRestoreFromSnapshot(k)

\* C14: no step of a service (initialize, createFileSnapshot,
\* restoreProjectFromSnapshot; getCurrentCommitHash writes nothing) changes
\* the user's own repository in the working tree: its commits, HEAD, index
\* and branch are after the step what they were before it.
C14_UserRepositoryUntouched ==
  [][(\E k \in Sessions : ProjectStep(k))
     => disk'.userRepo = disk.userRepo]_vars

\* C14's case: the service of /other, the project that holds the user's own
\* repository, has taken a snapshot, the working tree has moved on, and the
\* user's repository holds the two commits the user has made.
C14_Witness ==
  \E k \in Sessions :
    /\ svc[k].projectRoot = OtherDir
    /\ SnapshotRefs(RepoAt(disk, shadowGitRepository(svc[k]).GIT_DIR)) # {}
    /\ disk.files[OtherDir]
         # HeadTree(RepoAt(disk, shadowGitRepository(svc[k]).GIT_DIR))
    /\ Len(disk.userRepo[OtherDir].commits) = 2
    /\ \A i \in 1..2 : disk.userRepo[OtherDir].commits[i].message = "user"
    /\ disk.userRepo[OtherDir].index = disk.userRepo[OtherDir].commits[2].tree

\* C15: two services constructed for arguments that lead to the same
\* directory have the same fingerprint, history directory and temp
\* directory, and the working tree of each is the directory its hashed
\* path leads to.
C15_CanonicalisedBeforeHashing ==
  \A k, j \in Sessions :
    (/\ svc[k] # NoService
     /\ svc[j] # NoService
     /\ Realpath(getProjectRoot(svc[k].storage))
          = Realpath(getProjectRoot(svc[j].storage)))
    => /\ getFilePathHash(getProjectRoot(svc[k].storage))
            = getFilePathHash(getProjectRoot(svc[j].storage))
       /\ getHistoryDir(svc[k].storage) = getHistoryDir(svc[j].storage)
       /\ getProjectTempDir(svc[k].storage) = getProjectTempDir(svc[j].storage)
       /\ Realpath(shadowGitRepository(svc[k]).GIT_WORK_TREE)
            = Realpath(getProjectRoot(svc[k].storage))

\* C16: the repository directory a service gives git (GIT_DIR, in the
\* history directory) does not lie inside the working tree it gives git
\* (GIT_WORK_TREE), whatever the project root.
C16_MetadataOutsideWorkingTree ==
  \A k \in Sessions :
    svc[k] # NoService
    => LET repo == shadowGitRepository(svc[k])
       IN  ~IsPrefix(Realpath(repo.GIT_WORK_TREE).parts,
                     repo.GIT_DIR.dir.dir.parts)

\* Neither directory lies at or below the other.
Apart(p, q) == ~IsPrefix(p.parts, q.parts) /\ ~IsPrefix(q.parts, p.parts)

\* What a step of service k leaves of service j's project: its store with
\* its snapshots, and its working tree.
LeavesProjectOf(k, j) ==
  ProjectStep(k)
  => /\ disk'.stores[getHistoryDir(svc[j].storage)]
          = disk.stores[getHistoryDir(svc[j].storage)]
     /\ Ready(j) => WorkTreeAt(disk', svc[j].projectRoot)
                     = WorkTreeAt(disk, svc[j].projectRoot)

\* C18: two services constructed for different canonical roots have
\* different history directories, and a step of the one leaves the store,
\* the snapshots and the working tree of the other as they were.
C18_ProjectIsolation ==
  [][\A k, j \in Sessions :
       (/\ svc[k] # NoService
        /\ svc[j] # NoService
        /\ Canonical(getProjectRoot(svc[k].storage))
        /\ Canonical(getProjectRoot(svc[j].storage))
        /\ getProjectRoot(svc[k].storage) # getProjectRoot(svc[j].storage))
       => /\ getHistoryDir(svc[k].storage) # getHistoryDir(svc[j].storage)
          /\ LeavesProjectOf(k, j)]_vars

\* C18 as amended: two services constructed for different canonical roots
\* have different history directories, and when neither root lies at or
\* below the other or the global directory, nor the global directory below
\* a root, a step of the one leaves the store, the snapshots and the
\* working tree of the other as they were.
C18_SeparateProjectIsolation ==
  [][\A k, j \in Sessions :
       (/\ svc[k] # NoService
        /\ svc[j] # NoService
        /\ Canonical(getProjectRoot(svc[k].storage))
        /\ Canonical(getProjectRoot(svc[j].storage))
        /\ getProjectRoot(svc[k].storage) # getProjectRoot(svc[j].storage))
       => /\ getHistoryDir(svc[k].storage) # getHistoryDir(svc[j].storage)
          /\ (/\ Apart(svc[k].projectRoot, svc[j].projectRoot)
              /\ Apart(svc[k].projectRoot, getGlobalGeminiDir)
              /\ Apart(svc[j].projectRoot, getGlobalGeminiDir))
             => LeavesProjectOf(k, j)]_vars

\* C18's case: the services of /work/app and /other have each taken a
\* snapshot and the two working trees differ.
C18_Witness ==
  /\ svc[1].projectRoot = WorkAppDir
  /\ svc[2].projectRoot = OtherDir
  /\ \A k \in Sessions :
       SnapshotRefs(disk.stores[getHistoryDir(svc[k].storage)]) # {}
  /\ disk.files[WorkAppDir] # disk.files[OtherDir]

\* C19: restoreProjectFromSnapshot, whether it returns or throws, leaves
\* the store's HEAD, index and commits as they were, so a following
\* getCurrentCommitHash returns the reference it returned before, not the
\* restored one.
C19_RestoreChangesOnlyWorkingTree ==
  [][last'.op = "restoreProjectFromSnapshot"
     => /\ store'.head = store.head
        /\ store'.index = store.index
        /\ store'.commits = store.commits
        /\ getCurrentCommitHash(store', wt', "none")
             = getCurrentCommitHash(store, wt', "none")]_vars

\* C19's case: a restore to a snapshot older than the head snapshot has
\* returned and getCurrentCommitHash answers the head snapshot.
C19_Witness ==
  /\ Succeeded(last, "restoreProjectFromSnapshot")
  /\ last.arg \in SnapshotRefs(store)
  /\ store.head \in SnapshotRefs(store)
  /\ last.arg < store.head
  /\ getCurrentCommitHash(store, wt, "none").ret = store.head

\* C20: a createFileSnapshot that returned has returned the reference of a
\* commit it created: not empty, none of the store's earlier commits, and
\* the one getCurrentCommitHash reports right after, also when the working
\* tree has not changed since the last snapshot.
C20_SnapshotReturnsNewHead ==
  [][Succeeded(last', "createFileSnapshot")
     => /\ last'.ret # 0
        /\ last'.ret \notin 1..Len(store.commits)
        /\ getCurrentCommitHash(store', wt', "none").err = NoError
        /\ getCurrentCommitHash(store', wt', "none").ret = last'.ret]_vars

\* C20 as amended: a createFileSnapshot that returned has either created
\* one commit and returned its reference, which is new, not empty and the
\* one getCurrentCommitHash reports right after; or, when staging the
\* working tree changes nothing against the head snapshot, has created no
\* commit, left HEAD as it was and returned the empty reference.
C20_SnapshotReturnsNewHeadOrEmpty ==
  [][Succeeded(last', "createFileSnapshot")
     => IF GitAdd(store, wt).index = HeadTree(store)
        THEN /\ last'.ret = 0
             /\ store'.commits = store.commits
             /\ store'.head = store.head
        ELSE /\ last'.ret = Len(store.commits) + 1
             /\ Len(store'.commits) = last'.ret
             /\ store'.head = last'.ret
             /\ getCurrentCommitHash(store', wt', "none").ret = last'.ret]_vars

\* C20's case: a createFileSnapshot on a working tree that is as the head
\* snapshot recorded it has returned the empty reference.
C20_Witness ==
  /\ Succeeded(last, "createFileSnapshot")
  /\ last.ret = 0
  /\ store.head \in SnapshotRefs(store)
  /\ \E f \in Files : wt[f] # 0
  /\ GitAdd(store, wt).index = HeadTree(store)

\* The store as every initialize that returned leaves it (INITIALIZED).
Initialized(s) == s.dir /\ s.config /\ s.repo /\ s.ignoreExists

\* C17: once initialize has failed on the probe, the store is in
\* ENGINE_UNAVAILABLE for good: every later initialize is refused in the same
\* way and the store is never set up; an initialize whose probe succeeds and
\* that returns leaves the store INITIALIZED; and no initialize takes an
\* INITIALIZED store out of INITIALIZED.
C17_LifecycleStateMachine ==
  [][last'.op = "initialize"
     => /\ last'.err.wrap = "EngineUnavailable"
             => /\ store' = store
                /\ \A fault \in InitFaults :
                     LET r == initialize(store', wt', fault)
                     IN  /\ r.err.wrap = "EngineUnavailable"
                         /\ r.store = store'
        /\ last'.err = NoError => Initialized(store')
        /\ Initialized(store) => Initialized(store')]_vars

====
